---- MODULE Spec2Model ----
(***************************************************************************)
(* A model of alarm-monitor.py: the Texecom Connect client (class          *)
(* TexecomConnect), its callback message_handler and the __main__ script.  *)
(*                                                                         *)
(* Python strings are sequences of byte values 0..255.  The program is     *)
(* single threaded and blocks only in socket reads, so one action of the   *)
(* model is everything the program does from one socket read to the next.  *)
(***************************************************************************)
EXTENDS Integers, Sequences, FiniteSets, TLC

\* ------------------------------------------------------------------------
\* Bounds of the model
\* ------------------------------------------------------------------------

\* frames the panel delivers while one sendcommand call is in progress
MaxWire == 3
\* unsolicited messages the panel sends in sequence over the whole session
MaxMessages == 3
\* new commands sent over the whole session
MaxCommands == 8
\* zones the panel identification may announce
MaxZones == 2

\* The number of commands of a long run: two turns of the sequence counter
MaxSends == 514

\* The most bytes a remainder read yields when it yields too few
MaxPiece == 2

\* ------------------------------------------------------------------------
\* Class constants
\* ------------------------------------------------------------------------

LENGTH_HEADER == 4
HEADER_START == 116
HEADER_TYPE_COMMAND == 67
HEADER_TYPE_RESPONSE == 82
HEADER_TYPE_MESSAGE == 77

CMD_LOGIN == 1
CMD_GETZONEDETAILS == 3
CMD_GETLOGPOINTER == 15
CMD_GETPANELIDENTIFICATION == 22
CMD_GETDATETIME == 23
CMD_GETSYSTEMPOWER == 25
CMD_SETEVENTMESSAGES == 37

ZONETYPE_UNUSED == 0

CMD_RESPONSE_ACK == 6
CMD_RESPONSE_NAK == 21

MSG_DEBUG == 0
MSG_ZONEEVENT == 1
MSG_AREAEVENT == 2
MSG_OUTPUTEVENT == 3
MSG_USEREVENT == 4
MSG_LOGEVENT == 5

\* '+', the byte of the panel's disconnect marker "+++"
PLUS == 43

\* ------------------------------------------------------------------------
\* Bytes and the CRC
\* ------------------------------------------------------------------------

Byte == 0..255

RECURSIVE XorBits(_, _, _)
XorBits(a, b, n) ==
    IF n = 0 THEN 0
    ELSE (((a % 2) + (b % 2)) % 2) + (2 * XorBits(a \div 2, b \div 2, n - 1))

XorTable == [a \in Byte |-> [b \in Byte |-> XorBits(a, b, 8)]]

Xor8(a, b) == XorTable[a][b]

\* One byte through the shift register of crcmod for poly 0x185, rev=False:
\* eight times, shift left and xor the polynomial in when the top bit falls out.
RECURSIVE CrcShift(_, _)
CrcShift(c, n) ==
    IF n = 0 THEN c
    ELSE CrcShift(IF c >= 128 THEN XorBits((c * 2) % 256, 133, 8) ELSE (c * 2) % 256,
                  n - 1)

CrcTable == [i \in Byte |-> CrcShift(i, 8)]

\* The register c after the bytes data[lo..hi], one table step a byte; the
\* first half of the bytes is folded before the second is begun
RECURSIVE CrcFold(_, _, _, _)
CrcFold(c, data, lo, hi) ==
    IF lo > hi THEN c
    ELSE IF lo = hi THEN CrcTable[Xor8(c, data[lo])]
    ELSE LET mid == (lo + hi) \div 2
             left == CrcFold(c, data, lo, mid)
         IN  IF left \in Byte THEN CrcFold(left, data, mid + 1, hi) ELSE left

\* crcmod.mkCrcFun(poly=0x185, rev=False, initCrc=0xff)
crc8_func(data) == CrcFold(255, data, 1, Len(data))

\* ------------------------------------------------------------------------
\* Python values and outcomes
\* ------------------------------------------------------------------------

\* A Python value the model passes around: None, a string, True/False, or
\* any other object (a tuple, a number) carried in val.
None == [kind |-> "None", val |-> <<>>]
Str(bytes) == [kind |-> "str", val |-> bytes]
Bool(b) == [kind |-> "bool", val |-> <<b>>]
Obj(v) == [kind |-> "obj", val |-> v]

\* How a call ends: it returns a value or raises an exception.
Return(v) == [out |-> "return", val |-> v, exc |-> ""]
Raise(e) == [out |-> "raise", val |-> None, exc |-> e]

\* ------------------------------------------------------------------------
\* Sequence numbers and the command frame
\* ------------------------------------------------------------------------

\* getnextseq: the number handed out and the counter it leaves behind
\* (the variant sets the counter back one number early)
getnextseq_early(ns) ==
    LET n0 == IF ns = 255 THEN 0 ELSE ns
    IN  [next |-> n0, nextseq |-> n0 + 1]
getnextseq(ns) ==
    LET n0 == IF ns = 256 THEN 0 ELSE ns
    IN  [next |-> n0, nextseq |-> n0 + 1]

\* sendcommandbody, the bytes of the frame: 't' 'C' len+5 seq body crc
\* (the variant writes the counter's value after the increment)
CommandDataIncremented(seq, body) ==
    LET data == <<HEADER_START, HEADER_TYPE_COMMAND, Len(body) + 5, (seq + 1) % 256>>
                \o body
    IN  data \o <<crc8_func(data)>>
CommandData(seq, body) ==
    LET data == <<HEADER_START, HEADER_TYPE_COMMAND, Len(body) + 5, seq>> \o body
    IN  data \o <<crc8_func(data)>>

\* sendcommand, the body of the command: cmd alone when body is None or empty
CommandBody(cmd, body) == IF body # <<>> THEN <<cmd>> \o body ELSE <<cmd>>

\* ------------------------------------------------------------------------
\* The event callback
\* ------------------------------------------------------------------------

\* decode_message_to_text: "ok" when it returns a text, else the exception.
\* zonecache is self.zone.
decode_message_to_text(payload, zonecache) ==
    IF payload = <<>> THEN "IndexError"
    ELSE LET msg_type == Head(payload)
             rest == Tail(payload)
         IN  IF msg_type = MSG_DEBUG THEN "ok"
             ELSE IF msg_type = MSG_ZONEEVENT THEN
                 IF Len(rest) \notin {2, 3} THEN "ok"
                 ELSE LET zone_number == IF Len(rest) = 2 THEN rest[1]
                                         ELSE rest[1] + 256 * rest[2]
                      IN  IF zone_number \in DOMAIN zonecache THEN "ok"
                          ELSE "KeyError"
             ELSE IF msg_type = MSG_AREAEVENT THEN
                 IF Len(rest) < 2 THEN "IndexError"
                 ELSE IF rest[2] >= 6 THEN "IndexError"
                 ELSE "ok"
             ELSE IF msg_type = MSG_OUTPUTEVENT THEN
                 IF Len(rest) < 2 THEN "IndexError" ELSE "ok"
             ELSE IF msg_type = MSG_USEREVENT THEN
                 IF Len(rest) < 2 THEN "IndexError"
                 ELSE IF rest[2] >= 3 THEN "IndexError"
                 ELSE "ok"
             ELSE "ok"

\* Four bytes as one little-endian number of 32 bits, held as its two
\* halves of 16 bits (2^32 - 1 is more than an integer of TLC holds)
Word32(bytes) == [lo |-> bytes[1] + bytes[2] * 2^8, hi |-> bytes[3] + bytes[4] * 2^8]

\* The low 16 bits of w >> k: the masks below keep 6 bits at most
ShiftRight(w, k) ==
    IF k < 16 THEN (w.lo \div 2^k) + (w.hi % 2^k) * 2^(16 - k)
    ELSE w.hi \div 2^(k - 16)

\* The timestamp of a log event: the four bytes as one little-endian number,
\* cut into seconds, minutes, month, hours, day and year
\* (the variant takes month and hours from each other's place)
log_timestamp_swapped(timestamp) ==
    LET timestamp_int == Word32(timestamp)
    IN  [seconds |-> ShiftRight(timestamp_int, 0) % 64,
         minutes |-> ShiftRight(timestamp_int, 6) % 64,
         month |-> ShiftRight(timestamp_int, 16) % 16,
         hours |-> ShiftRight(timestamp_int, 12) % 32,
         day |-> ShiftRight(timestamp_int, 21) % 32,
         year |-> 2000 + (ShiftRight(timestamp_int, 26) % 64)]
log_timestamp(timestamp) ==
    LET timestamp_int == Word32(timestamp)
    IN  [seconds |-> ShiftRight(timestamp_int, 0) % 64,
         minutes |-> ShiftRight(timestamp_int, 6) % 64,
         month |-> ShiftRight(timestamp_int, 12) % 16,
         hours |-> ShiftRight(timestamp_int, 16) % 32,
         day |-> ShiftRight(timestamp_int, 21) % 32,
         year |-> 2000 + (ShiftRight(timestamp_int, 26) % 64)]

\* decode_message_to_text of a log event: where the timestamp lies in
\* payloads of 8, 9 and 10 bytes after the type byte
log_event_timestamp(payload) ==
    LET rest == Tail(payload)
    IN  IF Len(rest) \in {8, 9} THEN Return(Obj(log_timestamp(SubSeq(rest, 5, 8))))
        ELSE IF Len(rest) = 10 THEN Return(Obj(log_timestamp(SubSeq(rest, 7, 10))))
        ELSE Return(None)

\* message_handler: log the decoded text, then look at zone events again.
\* The reaction to zone 73 (the garage script) is site specific; the panels
\* of this model report zones below 73, so that branch is never taken.
message_handler(payload, zonecache) ==
    LET decoded == decode_message_to_text(payload, zonecache)
    IN  IF decoded # "ok" THEN decoded
        ELSE IF Head(payload) = MSG_ZONEEVENT /\ Len(payload) < 3 THEN "IndexError"
        ELSE "ok"

\* ------------------------------------------------------------------------
\* recvresponse
\* ------------------------------------------------------------------------

\* What one socket.recv call yields: bytes (none at all at end of stream),
\* or the 2 s timeout.
Data(bytes) == [kind |-> "data", bytes |-> bytes]
Timeout == [kind |-> "timeout", bytes |-> <<>>]

\* The header test for the panel's disconnect marker
IsDisconnect(header) == header = <<PLUS, PLUS, PLUS>>

\* The sequence number the next unsolicited message must carry
NextMessageSeq(lrs) == IF lrs + 1 = 256 THEN 0 ELSE lrs + 1

\* The sequence test of a response frame (the variant tests nothing)
ResponseSeqAny(msg_sequence, lastseq) == TRUE
ResponseSeqOk(msg_sequence, lastseq) == msg_sequence = lastseq

\* The sequence test of a message frame (the variant tests nothing)
MessageSeqAny(msg_sequence, lrs) == TRUE
MessageSeqOk(msg_sequence, lrs) ==
    lrs = -1 \/ msg_sequence = NextMessageSeq(lrs)

\* What the loop hands to message_handler_func for an accepted message
\* (the variant never calls it)
HandedNothing(payload) == <<>>
Handed(payload) == <<payload>>

\* socket.recv(n) on a stream that holds the bytes data: at most n of them
recv(data, n) == SubSeq(data, 1, IF n < Len(data) THEN n ELSE Len(data))

\* The reads and the unpacking of recvresponse on a stream that holds one
\* whole frame: the header, then msg_length - 4 bytes, of which the last is
\* the CRC (the variant leaves the CRC byte on the payload)
parse_frame_crc_kept(stream) ==
    LET header == recv(stream, LENGTH_HEADER)
        rest == recv(SubSeq(stream, LENGTH_HEADER + 1, Len(stream)),
                     header[3] - LENGTH_HEADER)
    IN  [msg_start |-> header[1], msg_type |-> header[2], msg_sequence |-> header[4],
         payload |-> rest,
         crc_ok |-> rest[Len(rest)] = crc8_func(header \o rest)]
parse_frame(stream) ==
    LET header == recv(stream, LENGTH_HEADER)
        rest == recv(SubSeq(stream, LENGTH_HEADER + 1, Len(stream)),
                     header[3] - LENGTH_HEADER)
        payload == SubSeq(rest, 1, Len(rest) - 1)
        msg_crc == rest[Len(rest)]
        expected_crc == crc8_func(header \o payload)
    IN  [msg_start |-> header[1], msg_type |-> header[2], msg_sequence |-> header[4],
         payload |-> payload, crc_ok |-> msg_crc = expected_crc]

\* One pass of the while loop of recvresponse: header and rest are what the
\* two recv calls yield (rest is not read when the header ends the pass).
\*   out    "return", "raise", or "continue" (the loop goes round again)
\*   lrs    self.last_received_seq afterwards
\*   s      self.s afterwards
\*   called the payloads passed to message_handler_func
recvresponse_pass(header, rest, lastseq, lrs, zonecache) ==
    LET Res(o, called, newlrs, news) ==
            [out |-> o.out, val |-> o.val, exc |-> o.exc,
             lrs |-> newlrs, s |-> news, called |-> called]
        Continue == [out |-> "continue", val |-> None, exc |-> ""]
    IN
    IF header.kind = "timeout" THEN Res(Raise("socket.timeout"), <<>>, lrs, "open")
    ELSE IF IsDisconnect(header.bytes) THEN Res(Return(None), <<>>, lrs, "None")
    ELSE IF Len(header.bytes) # LENGTH_HEADER THEN Res(Raise("ValueError"), <<>>, lrs, "open")
    ELSE IF header.bytes[3] < LENGTH_HEADER THEN Res(Raise("ValueError"), <<>>, lrs, "open")
    ELSE IF rest.kind = "timeout" THEN Res(Raise("socket.timeout"), <<>>, lrs, "open")
    ELSE IF rest.bytes = <<>> THEN Res(Raise("IndexError"), <<>>, lrs, "open")
    ELSE
    LET msg_start == header.bytes[1]
        msg_type == header.bytes[2]
        msg_sequence == header.bytes[4]
        payload == SubSeq(rest.bytes, 1, Len(rest.bytes) - 1)
        msg_crc == rest.bytes[Len(rest.bytes)]
        expected_crc == crc8_func(header.bytes \o payload)
    IN
    IF msg_start # HEADER_START THEN Res(Return(None), <<>>, lrs, "open")
    ELSE IF msg_crc # expected_crc THEN Res(Return(None), <<>>, lrs, "open")
    ELSE IF msg_type = HEADER_TYPE_RESPONSE THEN
        IF ~ResponseSeqOk(msg_sequence, lastseq)
        THEN Res(Return(None), <<>>, lrs, "open")
        ELSE Res(Return(Str(payload)), <<>>, lrs, "open")
    ELSE IF msg_type = HEADER_TYPE_MESSAGE THEN
        IF ~MessageSeqOk(msg_sequence, lrs)
        THEN Res(Return(None), <<>>, lrs, "open")
        ELSE LET handled == message_handler(payload, zonecache)
             IN  IF handled = "ok"
                 THEN Res(Continue, Handed(payload), msg_sequence, "open")
                 ELSE Res(Raise(handled), Handed(payload), msg_sequence, "open")
    ELSE IF msg_type = HEADER_TYPE_COMMAND THEN Res(Return(None), <<>>, lrs, "open")
    ELSE Res(Continue, <<>>, lrs, "open")

\* ------------------------------------------------------------------------
\* sendcommand, after recvresponse has returned, and the command wrappers
\* ------------------------------------------------------------------------

\* The bytes written when a read timed out: self.last_command
\* (the variant builds the frame anew with the next sequence number)
ResendRenumbered(last_cmd) ==
    CommandData((last_cmd[4] + 1) % 256, SubSeq(last_cmd, 5, Len(last_cmd) - 1))
Resend(last_cmd) == last_cmd

\* commandid,payload = response[0],response[1:] and the checks after it
sendcommand_validate(c, response) ==
    IF response.kind = "None" THEN Raise("TypeError")
    ELSE IF response.val = <<>> THEN Raise("IndexError")
    ELSE LET commandid == Head(response.val)
             payload == Tail(response.val)
         IN  IF commandid # c THEN
                 IF commandid = CMD_LOGIN /\ payload = <<>> THEN Raise("IndexError")
                 ELSE Return(None)
             ELSE Return(Str(payload))

\* login and set_event_messages, given what sendcommand returned
AckResult(response) ==
    IF response = Str(<<CMD_RESPONSE_NAK>>) THEN Return(Bool(FALSE))
    ELSE IF response # Str(<<CMD_RESPONSE_ACK>>) THEN
        IF response.kind = "None" \/ Len(response.val) # 1 THEN Raise("TypeError")
        ELSE Return(Bool(FALSE))
    ELSE Return(Bool(TRUE))

\* (the variant of login takes everything but a NAK for success)
login_unless_nak(response) ==
    IF response = Str(<<CMD_RESPONSE_NAK>>) THEN Return(Bool(FALSE))
    ELSE Return(Bool(TRUE))
login(response) == AckResult(response)

set_event_messages(response) == AckResult(response)

\* The two argument bytes of set_event_messages: the flag mask 0x003e
EventFlags == <<62, 0>>

DaysInMonth(y, m) ==
    IF m \in {4, 6, 9, 11} THEN 30
    ELSE IF m = 2 THEN (IF y % 4 = 0 /\ (y % 100 # 0 \/ y % 400 = 0) THEN 29 ELSE 28)
    ELSE 31

\* get_date_time: None, the date string (here its six numbers), or the
\* exception datetime.datetime raises for fields that are no date
get_date_time(response) ==
    IF response.kind = "None" THEN Return(None)
    ELSE IF Len(response.val) < 6 THEN Return(None)
    ELSE LET d == response.val
         IN  IF Len(d) > 7 THEN Raise("TypeError")
             ELSE IF d[2] \notin 1..12 \/ d[1] \notin 1..DaysInMonth(2000 + d[3], d[2])
                     \/ d[4] > 23 \/ d[5] > 59 \/ d[6] > 59
                  THEN Raise("ValueError")
             ELSE Return(Obj(SubSeq(d, 1, 6)))

\* get_system_power: voltages in millivolts, currents in mA
get_system_power(response) ==
    IF response.kind = "None" THEN Return(None)
    ELSE IF Len(response.val) # 5 THEN Return(None)
    ELSE LET d == response.val
         IN  Return(Obj(<<13700 + (d[2] - d[1]) * 70, 13700 + (d[3] - d[1]) * 70,
                          d[4] * 9, d[5] * 9>>))

\* get_log_pointer
get_log_pointer(response) ==
    IF response.kind = "None" THEN Return(None)
    ELSE IF Len(response.val) # 2 THEN Return(None)
    ELSE Return(Obj(<<response.val[1] + 256 * response.val[2]>>))

\* get_panel_identification
get_panel_identification(response) ==
    IF response.kind = "None" THEN Return(None)
    ELSE IF Len(response.val) # 32 THEN Return(None)
    ELSE Return(response)

\* A little-endian number
RECURSIVE LittleEndian(_)
LittleEndian(bytes) ==
    IF bytes = <<>> THEN 0 ELSE Head(bytes) + 256 * LittleEndian(Tail(bytes))

\* \w of the re module: letters, digits and the underscore
IsWord(c) == c \in (48..57) \cup (65..90) \cup (97..122) \cup {95}

RECURSIVE SkipNonWord(_)
SkipNonWord(t) ==
    IF t = <<>> THEN <<>>
    ELSE IF IsWord(Head(t)) THEN t
    ELSE SkipNonWord(Tail(t))

\* re.sub(r'\W+', ' ', text)
RECURSIVE CollapseNonWord(_)
CollapseNonWord(t) ==
    IF t = <<>> THEN <<>>
    ELSE IF IsWord(Head(t)) THEN <<Head(t)>> \o CollapseNonWord(Tail(t))
    ELSE <<32>> \o CollapseNonWord(SkipNonWord(t))

IsSpace(c) == c \in (9..13) \cup {32}

RECURSIVE LStrip(_)
LStrip(t) == IF t # <<>> /\ IsSpace(Head(t)) THEN LStrip(Tail(t)) ELSE t

RECURSIVE RStrip(_)
RStrip(t) ==
    IF t # <<>> /\ IsSpace(t[Len(t)]) THEN RStrip(SubSeq(t, 1, Len(t) - 1)) ELSE t

\* The three lines that tidy the zone text
ZoneText(raw) ==
    LET nul == [i \in 1..Len(raw) |-> IF raw[i] = 0 THEN 32 ELSE raw[i]]
    IN  RStrip(LStrip(CollapseNonWord(nul)))

\* get_zone_details: None, or the tuple (zonetype, areabitmap, zonetext)
get_zone_details(response) ==
    IF response.kind = "None" THEN Return(None)
    ELSE LET d == response.val
             Tuple(areabytes, textfrom) ==
                 Return(Obj([type |-> d[1],
                             areas |-> LittleEndian(SubSeq(d, 2, 1 + areabytes)),
                             text |-> ZoneText(SubSeq(d, textfrom, Len(d)))]))
         IN  IF Len(d) = 34 THEN Tuple(1, 3)
             ELSE IF Len(d) = 35 THEN Tuple(2, 4)
             ELSE IF Len(d) = 41 THEN Tuple(8, 10)
             ELSE Return(None)

\* str.split(): the words between runs of white space
RECURSIVE SplitWords(_, _)
SplitWords(t, word) ==
    IF t = <<>> THEN (IF word = <<>> THEN <<>> ELSE <<word>>)
    ELSE IF IsSpace(Head(t))
         THEN (IF word = <<>> THEN <<>> ELSE <<word>>) \o SplitWords(Tail(t), <<>>)
         ELSE SplitWords(Tail(t), Append(word, Head(t)))

RECURSIVE DigitsValue(_, _)
DigitsValue(t, acc) ==
    IF t = <<>> THEN acc ELSE DigitsValue(Tail(t), 10 * acc + (Head(t) - 48))

\* int(): the number, or -1000000 for what int() raises ValueError on
NotAnInt == -1000000
ParseInt(t) ==
    LET digits == IF t # <<>> /\ Head(t) \in {43, 45} THEN Tail(t) ELSE t
    IN  IF digits = <<>> \/ \E i \in 1..Len(digits) : digits[i] \notin 48..57
        THEN NotAnInt
        ELSE IF t[1] = 45 THEN 0 - DigitsValue(digits, 0) ELSE DigitsValue(digits, 0)

\* get_all_zones, from the identification to the range of the loop:
\* the number of zones, or the exception that ends the program
num_of_zones_from(idstr) ==
    IF idstr.kind = "None" THEN Raise("AttributeError")
    ELSE LET words == SplitWords(idstr.val, <<>>)
         IN  IF Len(words) # 4 THEN Raise("ValueError")
             ELSE IF ParseInt(words[2]) = NotAnInt THEN Raise("ValueError")
             ELSE Return(Obj(<<ParseInt(words[2])>>))

\* ------------------------------------------------------------------------
\* State
\* ------------------------------------------------------------------------

VARIABLES
    pc,                 \* the step of __main__ the program is at
    waiting,            \* TRUE while sendcommand is blocked in recvresponse
    zoneno,             \* get_all_zones: the loop variable zone
    num_of_zones,       \* get_all_zones: num_of_zones
    nextseq,            \* self.nextseq
    last_sequence,      \* self.last_sequence, -1 while the attribute is unset
    last_command,       \* self.last_command, <<>> while the attribute is unset
    last_received_seq,  \* self.last_received_seq
    s,                  \* self.s: "open", or "None" after the disconnect marker
    zone,               \* self.zone
    cmd,                \* sendcommand: the argument cmd of the call in progress
    retries,            \* sendcommand: the local retries
    sent,               \* history: what the current command wrote to the socket
    wire,               \* history: the frames read while the current command waited
    delivered,          \* history: the payloads the current command passed to the callback
    result,             \* history: how the last sendcommand call ended
    rr,                 \* history: the last pass of recvresponse since the last send
    exc,                \* the exception that ended the program, if any
    lastsent,           \* history: the bytes of the last write to the socket
    lrs_at_send,        \* history: last_received_seq when the current command was sent
    ntimeouts,          \* history: the read timeouts in a row of the current command
    ncommands,          \* history: the number of sendcommand calls so far
    cbseqs,             \* history: the sequence bytes of the last two messages passed to the callback
    unread,             \* the bytes a short read left in the socket's buffer
    input,              \* the argument of a function applied on its own
    output              \* what the function made of it

\* The engine, the program's place in __main__ and the histories
engine == <<pc, waiting, zoneno, num_of_zones, nextseq, last_sequence, last_command,
            last_received_seq, s, zone, cmd, retries, sent, wire, delivered, result,
            rr, exc, lastsent, lrs_at_send, ntimeouts, ncommands, cbseqs, unread>>

vars == <<engine, input, output>>

\* retries = 3
RETRIES == 3

\* while retries > 0: retries -= 1
EnterLoop(n) == [go |-> n > 0, retries |-> IF n > 0 THEN n - 1 ELSE n]

\* udlpassword = '1234'
udlpassword == <<49, 50, 51, 52>>

CallSteps == {"login", "set_event_messages", "get_date_time", "get_system_power",
              "get_log_pointer", "get_panel_identification", "get_zone_details",
              "keepalive"}

\* The command id and the argument bytes each step passes to sendcommand
CommandOf(step, z) ==
    CASE step = "login" -> [cmd |-> CMD_LOGIN, body |-> udlpassword]
      [] step = "set_event_messages" -> [cmd |-> CMD_SETEVENTMESSAGES, body |-> EventFlags]
      [] step \in {"get_date_time", "keepalive"} -> [cmd |-> CMD_GETDATETIME, body |-> <<>>]
      [] step = "get_system_power" -> [cmd |-> CMD_GETSYSTEMPOWER, body |-> <<>>]
      [] step = "get_log_pointer" -> [cmd |-> CMD_GETLOGPOINTER, body |-> <<>>]
      [] step = "get_panel_identification" ->
             [cmd |-> CMD_GETPANELIDENTIFICATION, body |-> <<>>]
      [] step = "get_zone_details" -> [cmd |-> CMD_GETZONEDETAILS, body |-> <<z>>]

NoResult == [state |-> "none", val |-> None, exc |-> ""]
Pending == [state |-> "pending", val |-> None, exc |-> ""]
Returned(v) == [state |-> "returned", val |-> v, exc |-> ""]
Raised(e) == [state |-> "raised", val |-> None, exc |-> e]

NoPass == [kind |-> "none", bytes |-> <<>>, prev |-> -1, out |-> "", val |-> None,
           exc |-> "", late |-> FALSE, overdue |-> FALSE]

Nothing == [kind |-> "nothing"]

\* The engine as __init__ and connect leave it
Constructed ==
    /\ pc = "login"
    /\ waiting = FALSE
    /\ zoneno = 0
    /\ num_of_zones = 0
    /\ nextseq = 0
    /\ last_sequence = -1
    /\ last_command = <<>>
    /\ last_received_seq = -1
    /\ s = "open"
    /\ unread = <<>>
    /\ zone = <<>>
    /\ cmd = 0
    /\ retries = 0
    /\ sent = <<>>
    /\ wire = <<>>
    /\ delivered = <<>>
    /\ result = NoResult
    /\ rr = NoPass
    /\ exc = ""
    /\ lastsent = <<>>
    /\ lrs_at_send = -1
    /\ ntimeouts = 0
    /\ ncommands = 0
    /\ cbseqs = <<>>

Init ==
    /\ Constructed
    /\ input = Nothing
    /\ output = Nothing

\* ------------------------------------------------------------------------
\* The panel: what the socket may yield
\* ------------------------------------------------------------------------

\* A frame as the panel puts it on the wire, its CRC over the bytes before it
WireFrame(start, type, seq, body) ==
    LET data == <<start, type, Len(body) + 5, seq>> \o body
    IN  data \o <<(crc8_func(data))>>

\* The same frame with its CRC byte damaged
BadCrc(frame) == [frame EXCEPT ![Len(frame)] = (@ + 1) % 256]

RECURSIVE Pad(_, _, _)
Pad(t, n, c) == IF Len(t) >= n THEN t ELSE Pad(Append(t, c), n, c)

\* "Elite <n> V4 LS1", 32 bytes
PanelId(n) == Pad(<<69, 108, 105, 116, 101, 32, 48 + n, 32, 86, 52, 32, 76, 83, 49>>, 32, 32)

\* "Elite V4 LS1": three words only
PanelIdShort == Pad(<<69, 108, 105, 116, 101, 32, 86, 52, 32, 76, 83, 49>>, 32, 32)

\* "KITCHEN\0WINDOW", 32 bytes
ZoneName == Pad(<<75, 73, 84, 67, 72, 69, 78, 0, 87, 73, 78, 68, 79, 87>>, 32, 0)

\* The response body the panel gives a command that it answers properly
GoodBody(c) ==
    CASE c = CMD_LOGIN -> <<CMD_LOGIN, CMD_RESPONSE_ACK>>
      [] c = CMD_SETEVENTMESSAGES -> <<CMD_SETEVENTMESSAGES, CMD_RESPONSE_ACK>>
      [] c = CMD_GETDATETIME -> <<CMD_GETDATETIME, 26, 1, 23, 10, 0, 52>>
      [] c = CMD_GETSYSTEMPOWER -> <<CMD_GETSYSTEMPOWER, 100, 101, 99, 5, 2>>
      [] c = CMD_GETLOGPOINTER -> <<CMD_GETLOGPOINTER, 52, 18>>
      [] c = CMD_GETPANELIDENTIFICATION -> <<CMD_GETPANELIDENTIFICATION>> \o PanelId(1)
      [] c = CMD_GETZONEDETAILS -> <<CMD_GETZONEDETAILS, 1, 1>> \o ZoneName

\* The response bodies the panel may give the command c
ResponseBodies(c) ==
    {GoodBody(c), <<CMD_LOGIN, CMD_RESPONSE_NAK>>, <<CMD_LOGIN>>} \cup
    CASE c = CMD_LOGIN -> {<<CMD_SETEVENTMESSAGES, CMD_RESPONSE_ACK>>, <<CMD_LOGIN, 0>>}
      [] c = CMD_SETEVENTMESSAGES -> {<<CMD_SETEVENTMESSAGES, CMD_RESPONSE_NAK>>}
      [] c = CMD_GETDATETIME -> {<<CMD_GETDATETIME, 26, 1, 23>>}
      [] c = CMD_GETSYSTEMPOWER -> {<<CMD_GETSYSTEMPOWER, 1>>}
      [] c = CMD_GETLOGPOINTER -> {<<CMD_GETLOGPOINTER>>}
      [] c = CMD_GETPANELIDENTIFICATION ->
             {<<CMD_GETPANELIDENTIFICATION>> \o PanelId(n) : n \in 1..MaxZones}
             \cup {<<CMD_GETPANELIDENTIFICATION>> \o PanelIdShort}
      [] c = CMD_GETZONEDETAILS ->
             {<<CMD_GETZONEDETAILS, ZONETYPE_UNUSED, 0>> \o ZoneName,
              <<CMD_GETZONEDETAILS, 1>>}

\* The bodies of the unsolicited messages: zone 1 active, area 1 armed
MessageBodies == {<<MSG_ZONEEVENT, 1, 1>>, <<MSG_AREAEVENT, 1, 3>>}

\* The sequence byte of the panel's first message of a session
FirstMessageSeqs == {254}

\* The sequence byte of the command before the outstanding one: a late
\* duplicate of its response carries it
StaleSeq == (last_sequence + 255) % 256

\* Sequence bytes of the messages on offer: the one in sequence, while the
\* panel has messages left, and one that skips a number
MessageSeqs ==
    IF last_received_seq = -1
    THEN FirstMessageSeqs
    ELSE (IF Len(cbseqs) < MaxMessages THEN {(last_received_seq + 1) % 256} ELSE {})
         \cup {(last_received_seq + 2) % 256}

\* Every frame the panel may deliver in the current state
PanelFrames ==
    {WireFrame(HEADER_START, HEADER_TYPE_RESPONSE, last_sequence, b) :
         b \in ResponseBodies(cmd)}
    \cup {WireFrame(HEADER_START, HEADER_TYPE_RESPONSE, StaleSeq, GoodBody(cmd))}
    \cup {WireFrame(HEADER_START, HEADER_TYPE_MESSAGE, q, b) :
         q \in MessageSeqs, b \in MessageBodies}
    \cup {BadCrc(WireFrame(HEADER_START, HEADER_TYPE_RESPONSE, last_sequence, GoodBody(cmd))),
          BadCrc(WireFrame(HEADER_START, HEADER_TYPE_MESSAGE,
                           (last_received_seq + 1) % 256, <<MSG_AREAEVENT, 1, 3>>)),
          WireFrame(84, HEADER_TYPE_RESPONSE, last_sequence, GoodBody(cmd)),
          WireFrame(HEADER_START, HEADER_TYPE_COMMAND, last_sequence, <<cmd>>),
          WireFrame(HEADER_START, 88, 0, <<0>>)}

\* ------------------------------------------------------------------------
\* The program between two socket reads
\* ------------------------------------------------------------------------

\* The part of the state a caller of recvresponse changes
Control == [pc |-> pc, waiting |-> waiting, retries |-> retries, sent |-> sent,
            lastsent |-> lastsent,
            result |-> result, exc |-> exc, zone |-> zone, zoneno |-> zoneno,
            num_of_zones |-> num_of_zones]

\* An exception nothing catches ends the program
Fault(c, e) == [c EXCEPT !.pc = "fault", !.exc = e, !.waiting = FALSE]

\* A wrapper result the caller ignores, or the exception it lets through
Then(c, w, nextpc) ==
    IF w.out = "raise" THEN Fault(c, w.exc) ELSE [c EXCEPT !.pc = nextpc]

\* login() and set_event_messages() in __main__: False is sys.exit(1)
\* (the variant goes on whatever they return)
ThenWhatever(c, w, nextpc) ==
    IF w.out = "raise" THEN Fault(c, w.exc) ELSE [c EXCEPT !.pc = nextpc]
ThenIfTrue(c, w, nextpc) ==
    IF w.out = "raise" THEN Fault(c, w.exc)
    ELSE IF w.val = Bool(TRUE) THEN [c EXCEPT !.pc = nextpc]
    ELSE [c EXCEPT !.pc = "exit"]

\* get_all_zones after get_panel_identification returned
AfterIdentification(c, w) ==
    LET n == num_of_zones_from(w.val)
    IN  IF n.out = "raise" THEN Fault(c, n.exc)
        ELSE IF n.val.val[1] >= 1
             THEN [c EXCEPT !.num_of_zones = n.val.val[1], !.zoneno = 1,
                            !.pc = "get_zone_details"]
             ELSE [c EXCEPT !.num_of_zones = n.val.val[1], !.pc = "event_loop"]

\* get_all_zones after get_zone_details returned: unpack, store, next zone
\* (the variant stores no zone of type 0)
AfterZoneDetailsUsedOnly(c, w) ==
    IF w.val.kind = "None" THEN Fault(c, "TypeError")
    ELSE LET c1 == IF w.val.val.type = ZONETYPE_UNUSED THEN c
                   ELSE [c EXCEPT !.zone = (c.zoneno :> w.val.val) @@ @]
         IN  IF c.zoneno < c.num_of_zones
             THEN [c1 EXCEPT !.zoneno = @ + 1]
             ELSE [c1 EXCEPT !.pc = "event_loop"]
AfterZoneDetails(c, w) ==
    IF w.val.kind = "None" THEN Fault(c, "TypeError")
    ELSE LET c1 == [c EXCEPT !.zone = (c.zoneno :> w.val.val) @@ @]
         IN  IF c.zoneno < c.num_of_zones
             THEN [c1 EXCEPT !.zoneno = @ + 1]
             ELSE [c1 EXCEPT !.pc = "event_loop"]

\* event_loop after its get_date_time returned: None is sys.exit(1)
\* (the variant does not look at the result)
AfterKeepaliveUnchecked(c, w) ==
    IF w.out = "raise" THEN Fault(c, w.exc) ELSE [c EXCEPT !.pc = "event_loop"]
AfterKeepalive(c, w) ==
    IF w.out = "raise" THEN Fault(c, w.exc)
    ELSE IF w.val.kind = "None" THEN [c EXCEPT !.pc = "exit"]
    ELSE [c EXCEPT !.pc = "event_loop"]

\* The caller of sendcommand, from the value v sendcommand returned up to
\* the next call of sendcommand or recvresponse
MainAfter(c, v) ==
    CASE c.pc = "login" -> ThenIfTrue(c, login(v), "set_event_messages")
      [] c.pc = "set_event_messages" -> ThenIfTrue(c, set_event_messages(v), "get_date_time")
      [] c.pc = "get_date_time" -> Then(c, get_date_time(v), "get_system_power")
      [] c.pc = "get_system_power" -> Then(c, get_system_power(v), "get_log_pointer")
      [] c.pc = "get_log_pointer" -> Then(c, get_log_pointer(v), "get_panel_identification")
      [] c.pc = "get_panel_identification" ->
             AfterIdentification(c, get_panel_identification(v))
      [] c.pc = "get_zone_details" -> AfterZoneDetails(c, get_zone_details(v))
      [] c.pc = "keepalive" -> AfterKeepalive(c, get_date_time(v))

\* sendcommand from the end of one pass r of recvresponse: the except clause
\* and the loop test, or the lines after the loop and the caller
sendcommand_after(c, r) ==
    IF r.out = "continue" THEN c
    ELSE IF r.out = "raise" /\ r.exc = "socket.timeout" THEN
        LET c1 == [c EXCEPT !.sent = Append(@, Resend(last_command)),
                            !.lastsent = Resend(last_command)]
            e == EnterLoop(c.retries)
        IN  IF e.go THEN [c1 EXCEPT !.retries = e.retries]
            ELSE Fault([c1 EXCEPT !.result = Raised("UnboundLocalError")],
                       "UnboundLocalError")
    ELSE IF r.out = "raise" THEN Fault([c EXCEPT !.result = Raised(r.exc)], r.exc)
    ELSE LET v == sendcommand_validate(cmd, r.val)
         IN  IF v.out = "raise"
             THEN Fault([c EXCEPT !.result = Raised(v.exc)], v.exc)
             ELSE MainAfter([c EXCEPT !.result = Returned(v.val), !.waiting = FALSE],
                            v.val)

\* event_loop from the end of one pass r of recvresponse; late says whether
\* more than 30 s have passed since last_command_time
event_loop_after(c, r, late) ==
    IF r.out = "continue" THEN c
    ELSE IF r.out = "raise" /\ r.exc = "socket.timeout" THEN
        IF late THEN [c EXCEPT !.pc = "keepalive"] ELSE c
    ELSE IF r.out = "raise" THEN Fault(c, r.exc)
    ELSE IF r.s = "None" THEN Fault(c, "AttributeError")
    ELSE c

\* The clock when a read of the idle loop ends: late says that more than
\* 30 s have passed since last_command_time.  Once late, late until the
\* next command is sent.  The program reads the clock only after a read
\* that timed out.
Lates == IF waiting THEN {FALSE} ELSE IF rr.late THEN {TRUE} ELSE BOOLEAN

\* The clock when a read of a waiting command ends: overdue says that the
\* 2 s of the socket timeout have passed since the command was last written.
\* The first read after a write yields data before that; later ones may
\* not, and once overdue, overdue until the next write.
Overdues ==
    IF ~waiting \/ rr.kind = "none" \/ rr.exc = "socket.timeout" THEN {FALSE}
    ELSE IF rr.overdue THEN {TRUE}
    ELSE BOOLEAN

\* One pass of recvresponse and what its caller does with it.
\* kind and bytes say what was read, for the history.  The histories of a
\* command are kept until the program reads again after the command ended.
\* A pass that ends in socket.timeout has lasted the 2 s itself.
PassLeaving(kind, bytes, r, late, overdue, left) ==
    LET c == IF waiting THEN sendcommand_after(Control, r)
             ELSE event_loop_after(Control, r, late)
    IN  /\ pc' = c.pc
        /\ waiting' = c.waiting
        /\ retries' = c.retries
        /\ sent' = IF waiting THEN c.sent ELSE <<>>
        /\ lastsent' = c.lastsent
        /\ result' = IF waiting THEN c.result ELSE NoResult
        /\ exc' = c.exc
        /\ zone' = c.zone
        /\ zoneno' = c.zoneno
        /\ num_of_zones' = c.num_of_zones
        /\ last_received_seq' = r.lrs
        /\ s' = r.s
        /\ rr' = [kind |-> kind, bytes |-> bytes, prev |-> last_received_seq,
                  out |-> r.out, val |-> r.val, exc |-> r.exc, late |-> late,
                  overdue |-> waiting /\ (overdue \/ r.exc = "socket.timeout")]
        /\ ntimeouts' = IF waiting /\ kind = "timeout" THEN ntimeouts + 1 ELSE 0
        /\ wire' = IF ~waiting THEN <<>>
                   ELSE IF kind = "frame" THEN Append(wire, bytes) ELSE wire
        /\ delivered' = IF waiting THEN delivered \o r.called ELSE <<>>
        /\ cbseqs' = IF r.called # <<>> THEN Append(cbseqs, bytes[4]) ELSE cbseqs
        /\ unread' = left
        /\ UNCHANGED <<nextseq, last_sequence, last_command, cmd, ncommands,
                       lrs_at_send, input, output>>

\* A pass whose reads took all the stream held
Pass(kind, bytes, r, late, overdue) == PassLeaving(kind, bytes, r, late, overdue, unread)

\* The program is blocked in the recv of the header
Reading == (waiting \/ pc = "event_loop") /\ s = "open"

\* sendcommand up to its first socket read: sendcommandbody, retries = 3
\* (limit bounds the number of calls)
SendCommand(limit) ==
    /\ pc \in CallSteps
    /\ ~waiting
    /\ ncommands < limit
    /\ LET c == CommandOf(pc, zoneno)
           n == getnextseq(nextseq)
           data == CommandData(n.next, CommandBody(c.cmd, c.body))
           e == EnterLoop(RETRIES)
       IN  /\ cmd' = c.cmd
           /\ nextseq' = n.nextseq
           /\ last_sequence' = n.next
           /\ last_command' = data
           /\ sent' = <<data>>
           /\ lastsent' = data
           /\ retries' = e.retries
           /\ waiting' = TRUE
           /\ result' = Pending
           /\ wire' = <<>>
           /\ delivered' = <<>>
           /\ ncommands' = ncommands + 1
    /\ rr' = NoPass
    /\ lrs_at_send' = last_received_seq
    /\ ntimeouts' = 0
    /\ UNCHANGED <<pc, zoneno, num_of_zones, last_received_seq, s, zone, exc, cbseqs,
                   unread, input, output>>

Call == SendCommand(MaxCommands)

\* A whole frame arrives: both reads give what they asked for
ReadFrame(frames, lates, overdues) ==
    /\ Reading
    /\ waiting => Len(wire) < MaxWire
    /\ \E f \in frames, late \in lates, overdue \in overdues :
         Pass("frame", f,
              recvresponse_pass(Data(SubSeq(f, 1, LENGTH_HEADER)),
                                Data(SubSeq(f, LENGTH_HEADER + 1, Len(f))),
                                last_sequence, last_received_seq, zone),
              late, overdue)

RecvFrame == ReadFrame(PanelFrames, {FALSE}, {FALSE})

\* Nothing arrives for 2 s: the idle loop then reads the clock
ReadTimeout(limit, lates) ==
    /\ Reading
    /\ \E late \in lates :
         /\ late => ncommands < limit
         /\ Pass("timeout", <<>>,
                 recvresponse_pass(Timeout, Timeout, last_sequence,
                                   last_received_seq, zone),
                 late, TRUE)

RecvTimeout == ReadTimeout(MaxCommands, Lates)

\* The header read yields the three bytes "+++" and no more
ReadMarker(lates, overdues) ==
    /\ Reading
    /\ \E late \in lates, overdue \in overdues :
         Pass("marker", <<PLUS, PLUS, PLUS>>,
              recvresponse_pass(Data(<<PLUS, PLUS, PLUS>>), Timeout, last_sequence,
                                last_received_seq, zone),
              late, overdue)

RecvMarker == ReadMarker({FALSE}, {FALSE})

\* The header read yields "+++" and a fourth byte; the read of the 39 bytes
\* that header announces then times out, meets the end of the stream, or
\* gets whatever the panel sent next
ReadMarkerAndByte(lates, overdues) ==
    /\ Reading
    /\ \E rest \in {Timeout, Data(<<>>), Data(<<13, 10>>)},
          late \in lates, overdue \in overdues :
         Pass("marker4", <<PLUS, PLUS, PLUS, 13>>,
              recvresponse_pass(Data(<<PLUS, PLUS, PLUS, 13>>), rest, last_sequence,
                                last_received_seq, zone),
              late, overdue)

RecvMarkerAndByte == ReadMarkerAndByte({FALSE}, {FALSE})

\* The header read meets the end of the stream
ReadEOF(lates, overdues) ==
    /\ Reading
    /\ \E late \in lates, overdue \in overdues :
         Pass("eof", <<>>,
              recvresponse_pass(Data(<<>>), Timeout, last_sequence,
                                last_received_seq, zone),
              late, overdue)

RecvEOF == ReadEOF({FALSE}, {FALSE})

Next ==
    \/ Call
    \/ RecvFrame
    \/ RecvTimeout
    \/ RecvMarker
    \/ RecvMarkerAndByte
    \/ RecvEOF

Spec == Init /\ [][Next]_vars

\* The same program with the clock recorded at the end of every read, not
\* only at the reads of the idle loop that time out
ClockedFrame == ReadFrame(PanelFrames, Lates, Overdues)
ClockedMarker == ReadMarker(Lates, Overdues)
ClockedMarkerAndByte == ReadMarkerAndByte(Lates, Overdues)
ClockedEOF == ReadEOF(Lates, Overdues)

NextClocked ==
    \/ Call
    \/ ClockedFrame
    \/ RecvTimeout
    \/ ClockedMarker
    \/ ClockedMarkerAndByte
    \/ ClockedEOF

SpecClocked == Init /\ [][NextClocked]_vars

\* The same program on a long run with a panel that answers every command
\* properly and reports no events: a command is answered at once or after
\* one retransmission, and the idle loop sends its keep-alive each time
LongCall == SendCommand(MaxSends)

LongAnswer ==
    /\ waiting
    /\ ReadFrame({WireFrame(HEADER_START, HEADER_TYPE_RESPONSE, last_sequence,
                             GoodBody(cmd))}, {FALSE}, {FALSE})

LongSilence ==
    /\ waiting => Len(sent) < 2
    /\ ReadTimeout(MaxSends, {~waiting})

\* An area event arrives, while a command waits or in the idle loop: in
\* sequence (accepted) or one number ahead (dropped)
LongEvent ==
    ReadFrame({WireFrame(HEADER_START, HEADER_TYPE_MESSAGE, q, <<MSG_AREAEVENT, 1, 3>>) :
                   q \in MessageSeqs}, {FALSE}, {FALSE})

NextLong ==
    \/ LongCall
    \/ LongAnswer
    \/ LongSilence
    \/ LongEvent

SpecLong == Init /\ [][NextLong]_vars

\* The same program on a socket whose reads may give fewer bytes than asked
\* for: recv(n) returns what has arrived, at most n bytes, and the rest of
\* the frame stays in the stream for the reads that follow

\* A debug message whose second byte happens to equal the checksum of the
\* bytes before it
DebugBody(q) ==
    <<MSG_DEBUG,
      crc8_func(<<HEADER_START, HEADER_TYPE_MESSAGE, LENGTH_HEADER + 4, q, MSG_DEBUG>>),
      0>>

\* The frames that arrive while the stream is watched for short reads: the
\* response to the outstanding command and the messages on offer
PiecedFrames ==
    {WireFrame(HEADER_START, HEADER_TYPE_RESPONSE, last_sequence, GoodBody(cmd))}
    \cup {WireFrame(HEADER_START, HEADER_TYPE_MESSAGE, q, b) :
          q \in MessageSeqs, b \in MessageBodies}
    \cup {WireFrame(HEADER_START, HEADER_TYPE_MESSAGE, q, DebugBody(q)) :
          q \in MessageSeqs}

\* The number of bytes the remainder read may yield when it yields too few
ShortLengths(f) ==
    LET n == Len(f) - LENGTH_HEADER
    IN  1..(IF n - 1 < MaxPiece THEN n - 1 ELSE MaxPiece)

WholeFrame ==
    /\ unread = <<>>
    /\ ReadFrame(PiecedFrames, {FALSE}, {FALSE})

Silence ==
    /\ unread = <<>>
    /\ RecvTimeout

\* header = self.s.recv(4) yields the first 1 to 3 bytes of a frame
ShortHeader ==
    /\ Reading
    /\ unread = <<>>
    /\ \E f \in PiecedFrames, k \in 1..(LENGTH_HEADER - 1) :
         PassLeaving("short_header", f,
                     recvresponse_pass(Data(recv(f, k)), Timeout, last_sequence,
                                       last_received_seq, zone),
                     FALSE, FALSE, SubSeq(f, k + 1, Len(f)))

\* payload = self.s.recv(msg_length - 4) yields fewer bytes than that
ShortRest ==
    /\ Reading
    /\ unread = <<>>
    /\ \E f \in PiecedFrames :
         \E j \in ShortLengths(f) :
           PassLeaving("short_rest", f,
                       recvresponse_pass(Data(recv(f, LENGTH_HEADER)),
                                         Data(SubSeq(f, LENGTH_HEADER + 1,
                                                     LENGTH_HEADER + j)),
                                         last_sequence, last_received_seq, zone),
                       FALSE, FALSE, SubSeq(f, LENGTH_HEADER + j + 1, Len(f)))

\* The pass after a short read: its reads take what the stream still
\* holds, and the remainder read times out when nothing is left for it
ReadUnread ==
    /\ Reading
    /\ unread # <<>>
    /\ LET header == recv(unread, LENGTH_HEADER)
           after == SubSeq(unread, Len(header) + 1, Len(unread))
           reads_on == Len(header) = LENGTH_HEADER /\ header[3] >= LENGTH_HEADER
           rest == IF reads_on THEN recv(after, header[3] - LENGTH_HEADER) ELSE <<>>
           payload == IF reads_on /\ after = <<>> /\ header[3] > LENGTH_HEADER
                      THEN Timeout ELSE Data(rest)
       IN  PassLeaving("unread", unread,
                       recvresponse_pass(Data(header), payload, last_sequence,
                                         last_received_seq, zone),
                       FALSE, FALSE, SubSeq(after, Len(rest) + 1, Len(after)))

NextPieces ==
    \/ Call
    \/ WholeFrame
    \/ Silence
    \/ ShortHeader
    \/ ShortRest
    \/ ReadUnread

SpecPieces == Init /\ [][NextPieces]_vars

\* The framing and the log timestamp on their own: a frame of each type,
\* with every sequence byte and bodies of 1 to 250 bytes, is put on the
\* stream and read back; the timestamp of a log event is unpacked
FrameTypes == {HEADER_TYPE_COMMAND, HEADER_TYPE_RESPONSE, HEADER_TYPE_MESSAGE}

\* A body of the greatest length the length byte allows: 255 - 5
LongestBody == [i \in 1..(255 - (LENGTH_HEADER + 1)) |-> 170]

Bodies == {<<0>>, <<255>>, <<CMD_LOGIN, CMD_RESPONSE_ACK>>, <<PLUS, PLUS, PLUS>>,
           <<HEADER_START, HEADER_TYPE_RESPONSE, 7, 0>>, LongestBody}

\* Log events of 8, 9 and 10 bytes: event type, group type, parameter,
\* areas, and the timestamps 0x2F4A1234, 0 and 0xFFFFFFFF
Timestamps == {<<52, 18, 74, 47>>, <<0, 0, 0, 0>>, <<255, 255, 255, 255>>}

LogEvents ==
    {<<MSG_LOGEVENT, 1, 2, 3, 1>> \o ts : ts \in Timestamps}
    \cup {<<MSG_LOGEVENT, 1, 2, 3, 1>> \o ts \o <<0>> : ts \in Timestamps}
    \cup {<<MSG_LOGEVENT, 1, 2, 3, 0, 1, 0>> \o ts : ts \in Timestamps}

InitAlone ==
    /\ Constructed
    /\ input \in [kind : {"frame"}, type : FrameTypes, seq : Byte, body : Bodies]
                \cup [kind : {"log"}, payload : LogEvents]
    /\ output = Nothing

\* The bytes of a frame: a command as sendcommandbody builds it, a response
\* or a message as the panel does
BuildFrame(type, seq, body) ==
    IF type = HEADER_TYPE_COMMAND THEN CommandData(seq, body)
    ELSE WireFrame(HEADER_START, type, seq, body)

\* The frame is built and read back as recvresponse reads
RoundTrip ==
    /\ input.kind = "frame"
    /\ output = Nothing
    /\ output' = [kind |-> "frame",
                  val |-> parse_frame(BuildFrame(input.type, input.seq, input.body))]
    /\ UNCHANGED <<engine, input>>

\* decode_message_to_text of a log event
DecodeLogEvent ==
    /\ input.kind = "log"
    /\ output = Nothing
    /\ output' = [kind |-> "log", val |-> log_event_timestamp(input.payload).val.val]
    /\ UNCHANGED <<engine, input>>

NextAlone ==
    \/ RoundTrip
    \/ DecodeLogEvent

SpecAlone == InitAlone /\ [][NextAlone]_vars

\* ------------------------------------------------------------------------
\* The wire format as the protocol states it, for the properties below
\* ------------------------------------------------------------------------

FrameBody(f) == SubSeq(f, LENGTH_HEADER + 1, Len(f) - 1)

WellFormed(f) ==
    /\ f[1] = HEADER_START
    /\ f[3] = Len(f)
    /\ f[Len(f)] = crc8_func(SubSeq(f, 1, Len(f) - 1))

\* The bodies of the well formed messages of frames that are each one more,
\* modulo 256, than the message accepted before (prev, -1 for none yet)
RECURSIVE InSequenceMessages(_, _)
InSequenceMessages(frames, prev) ==
    IF frames = <<>> THEN <<>>
    ELSE LET f == Head(frames)
         IN  IF /\ WellFormed(f)
                /\ f[2] = HEADER_TYPE_MESSAGE
                /\ (prev = -1 \/ f[4] = (prev + 1) % 256)
             THEN <<FrameBody(f)>> \o InSequenceMessages(Tail(frames), f[4])
             ELSE InSequenceMessages(Tail(frames), prev)

\* A pass of recvresponse was made for a command, and read a frame
CommandReadFrame == result.state # "none" /\ rr.kind = "frame"

\* ------------------------------------------------------------------------
\* Properties
\* ------------------------------------------------------------------------

\* C1: while a sendcommand call waits and when it has ended, above all when
\* it has returned, the payloads it passed to the event callback are exactly
\* the well formed in-sequence messages read since the send, each once and
\* in wire order.
C1_DemultiplexingOrder ==
    result.state # "none" => delivered = InSequenceMessages(wire, lrs_at_send)

\* C1 witness: a call returned a payload after two different messages
C1_Witness ==
    /\ result.state = "returned"
    /\ result.val.kind = "str"
    /\ Len(delivered) = 2
    /\ delivered[1] # delivered[2]

\* C2: every write of the current command carries the bytes of its first
\* write, and the counter stays one past the sequence byte of that write.
C2_RetryPreservesSequence ==
    sent # <<>> =>
        /\ \A i \in 1..Len(sent) : sent[i] = sent[1]
        /\ nextseq = sent[1][4] + 1

\* C2 witness: a command was retransmitted twice
C2_Witness == Len(sent) = 3 /\ waiting

\* C3: a command frame is written to the socket at most 3 times.
C3_RetryBudget == Len(sent) <= 3

\* C4: after 3 read timeouts in a row the sendcommand call has returned
\* the failure value None and the program has not faulted.
C4_RetriesExhausted ==
    ntimeouts = 3 => result = Returned(None) /\ pc # "fault"

\* C5: a payload recvresponse returns is the body of a response frame that
\* carries the sequence byte of the last command written to the socket.
C5_ResponseAcceptance ==
    (rr.out = "return" /\ rr.val.kind = "str") =>
        /\ rr.kind = "frame"
        /\ rr.bytes[2] = HEADER_TYPE_RESPONSE
        /\ rr.bytes[4] = lastsent[4]
        /\ rr.val.val = FrameBody(rr.bytes)

\* C5 witness: the idle loop was handed the payload of a response
C5_Witness ==
    /\ rr.out = "return"
    /\ rr.val.kind = "str"
    /\ pc = "event_loop"
    /\ result.state = "none"

\* C6: each message passed to the callback carries the sequence byte after
\* the one before it, modulo 256, the first one any byte; and
\* last_received_seq is the sequence byte of the last message passed on.
C6_MessageAcceptance ==
    /\ \A i \in 2..Len(cbseqs) : cbseqs[i] = (cbseqs[i - 1] + 1) % 256
    /\ last_received_seq = IF cbseqs = <<>> THEN -1 ELSE cbseqs[Len(cbseqs)]

\* C6 witness: the messages 254, 255 and 0 were passed on
C6_Witness == cbseqs = <<254, 255, 0>>

\* C7: a well formed frame that fails its sequence check while a command
\* waits is dropped: the counters stay and the command goes on waiting.
C7_SequenceMismatchDropped ==
    (/\ CommandReadFrame
     /\ WellFormed(rr.bytes)
     /\ \/ rr.bytes[2] = HEADER_TYPE_RESPONSE /\ rr.bytes[4] # sent[1][4]
        \/ /\ rr.bytes[2] = HEADER_TYPE_MESSAGE
           /\ rr.prev # -1
           /\ rr.bytes[4] # (rr.prev + 1) % 256)
    => /\ result.state = "pending"
       /\ pc # "fault"
       /\ last_received_seq = rr.prev

\* C8: a frame with a wrong start byte or a wrong CRC read while a command
\* waits is dropped and the command goes on waiting.
C8_MalformedDropped ==
    (CommandReadFrame /\ ~WellFormed(rr.bytes))
    => result.state = "pending" /\ pc # "fault"

\* C9: a header read that yields "+++" and a fourth byte, or the end of the
\* stream, makes recvresponse return with the socket marked closed.
C9_DisconnectDetected ==
    rr.kind \in {"marker4", "eof"} =>
        rr.out = "return" /\ rr.val = None /\ s = "None"

\* C10: when the disconnect marker is seen while a command waits, the
\* sendcommand call returns the failure value None and nothing faults.
C10_DisconnectDuringCommand ==
    (result.state # "none" /\ s = "None") =>
        result = Returned(None) /\ pc # "fault"

\* C11: when recvresponse hands sendcommand the body of a response, the call
\* returns the bytes after the first one if the first byte is the command id
\* that was sent, and returns the failure value None for any other first
\* byte.
C11_ResponseValidation ==
    (/\ result.state \notin {"none", "pending"}
     /\ rr.out = "return"
     /\ rr.val.kind = "str"
     /\ rr.val.val # <<>>)
    => IF Head(rr.val.val) = cmd
       THEN result = Returned(Str(Tail(rr.val.val)))
       ELSE result = Returned(None)

\* C12: when a read of the idle loop ends more than 30 s after the last
\* command was sent, whatever it has read, the loop sends GET_DATE_TIME
\* before it reads again.
C12_KeepAliveFires ==
    (rr.late /\ ~waiting) => pc # "event_loop"

\* The keep-alive call has ended with a date: sendcommand returned a payload
\* and get_date_time made a date of it
ProbeSucceeded ==
    /\ result.state = "returned"
    /\ get_date_time(result.val).out = "return"
    /\ get_date_time(result.val).val.kind = "obj"

\* C13: when the keep-alive call of the idle loop ends in any way but with a
\* date, the program ends there (sys.exit or an exception nothing catches);
\* with a date it goes back to the idle loop.  Once ended, the program
\* takes no further step: it writes no command and reads no frame.
C13_KeepAliveFatal ==
    [][/\ (pc = "keepalive" /\ waiting /\ ~waiting')
          => IF ProbeSucceeded' THEN pc' = "event_loop" ELSE pc' \in {"exit", "fault"}
       /\ pc \notin {"exit", "fault"}]_vars

\* C13 witness: the keep-alive was answered with a payload too short for a
\* date, and the program has exited
C13_Witness ==
    /\ pc = "exit"
    /\ cmd = CMD_GETDATETIME
    /\ ncommands > 3
    /\ result.state = "returned"
    /\ result.val.kind = "str"

\* C14: while a command is inside its receive loop, no step starts another
\* command: no sequence number is drawn, the idle loop's keep-alive is not
\* reached, and whatever is written to the socket, after a timeout or after
\* the event callback ran, is the frame of that command with its sequence
\* byte.
C14_SingleOutstanding ==
    [][result.state = "pending" =>
          /\ ncommands' = ncommands
          /\ nextseq' = nextseq
          /\ last_sequence' = last_sequence
          /\ cmd' = cmd
          /\ lastsent'[4] = last_sequence
          /\ Len(sent') \in {Len(sent), Len(sent) + 1}
          /\ result'.state = "pending" => pc' = pc]_vars

\* C14 witness: a command waits after the event callback has run and after
\* a retransmission
C14_Witness ==
    /\ result.state = "pending"
    /\ delivered # <<>>
    /\ Len(sent) = 2

\* C15 as stated: after N commands the stored counter is N mod 256.
C15_CounterIsNMod256 == nextseq = ncommands % 256

\* C15, amended: after N commands the stored counter is N mod 256, except
\* that it is 256 when N is a positive multiple of 256 (it is set back to 0
\* only when the next number is drawn); the sequence byte of command N is
\* (N - 1) mod 256.  Retransmissions draw no number.
C15_CounterValue ==
    /\ nextseq = IF ncommands = 0 THEN 0 ELSE ((ncommands - 1) % 256) + 1
    /\ ncommands > 0 => last_sequence = (ncommands - 1) % 256

\* C15 witness: 512 commands were sent, the last after a retransmission
C15_Witness == ncommands = 512 /\ nextseq = 256 /\ Len(sent) = 2

\* The call of login has ended: LOGIN is the first command of the program
LoginEnded ==
    ncommands = 1 /\ cmd = CMD_LOGIN /\ result.state \notin {"none", "pending"}

\* C16: login returns True, and the program goes on to set_event_messages,
\* exactly when the response accepted for the LOGIN command has the body
\* 01 06; for the body 01 15 it returns False and the program gives up; any
\* other end of the call is not a success.
C16_LoginOutcome ==
    LoginEnded =>
        /\ pc = "set_event_messages"
              <=> (rr.out = "return" /\ rr.val = Str(<<CMD_LOGIN, CMD_RESPONSE_ACK>>))
        /\ (rr.out = "return" /\ rr.val = Str(<<CMD_LOGIN, CMD_RESPONSE_NAK>>))
              => (pc = "exit" /\ result = Returned(Str(<<CMD_RESPONSE_NAK>>)))
        /\ pc \in {"set_event_messages", "exit", "fault"}

\* C16 witness: the panel has answered LOGIN with 01 15 after a
\* retransmission, and login has returned False
C16_Witness ==
    /\ LoginEnded
    /\ Len(sent) = 2
    /\ rr.val = Str(<<CMD_LOGIN, CMD_RESPONSE_NAK>>)
    /\ pc = "exit"

\* C17: a frame of type C, R or M built as 't', type, len(body) + 5, seq,
\* body, CRC is read back as the same type, sequence byte and body, with
\* the start byte and the CRC found right.
C17_FrameRoundTrip ==
    (input.kind = "frame" /\ output # Nothing) =>
        output.val = [msg_start |-> HEADER_START, msg_type |-> input.type,
                      msg_sequence |-> input.seq, payload |-> input.body,
                      crc_ok |-> TRUE]

\* C17 witness: a message with sequence byte 255 and a body of 250 bytes
\* has been read back
C17_Witness ==
    /\ input.kind = "frame"
    /\ output # Nothing
    /\ input.type = HEADER_TYPE_MESSAGE
    /\ input.seq = 255
    /\ Len(input.body) = 250


\* C18: while get_all_zones runs, the zone it asks for is the next after
\* those it has stored, from 1 up to num_of_zones, and the command on the
\* wire is GET_ZONE_DETAILS for that zone; once it has ended, self.zone has
\* an entry for every zone 1..num_of_zones, whatever the zone types.
C18_ZoneEnumeration ==
    /\ pc = "get_zone_details" =>
          /\ zoneno \in 1..num_of_zones
          /\ DOMAIN zone = 1..(zoneno - 1)
          /\ waiting => /\ cmd = CMD_GETZONEDETAILS
                        /\ SubSeq(last_command, 5, 6) = <<CMD_GETZONEDETAILS, zoneno>>
    /\ pc \in {"event_loop", "keepalive"} => DOMAIN zone = 1..num_of_zones

\* C18 witness: two zones were asked for, the first is unused, and the idle
\* loop has begun
C18_Witness ==
    /\ pc = "event_loop"
    /\ num_of_zones = 2
    /\ DOMAIN zone = {1, 2}
    /\ zone[1].type = ZONETYPE_UNUSED
    /\ zone[2].type # ZONETYPE_UNUSED

\* The log event of 8 bytes that carries the timestamp 0x2F4A1234
LogEvent2F4A1234 == [kind |-> "log", payload |-> <<MSG_LOGEVENT, 1, 2, 3, 1, 52, 18, 74, 47>>]

\* C19 as stated: 0x2F4A1234 unpacks to 2023-01-26 10:00:52.
C19_TimestampAsStated ==
    (input = LogEvent2F4A1234 /\ output # Nothing) =>
        output.val = [seconds |-> 52, minutes |-> 0, month |-> 1, hours |-> 10,
                      day |-> 26, year |-> 2023]

\* C19, amended: 0x2F4A1234 unpacks to seconds 52, minutes 8, month 1,
\* hours 10, day 26, year 2011.
C19_TimestampDecoding ==
    (input = LogEvent2F4A1234 /\ output # Nothing) =>
        output.val = [seconds |-> 52, minutes |-> 8, month |-> 1, hours |-> 10,
                      day |-> 26, year |-> 2011]

\* C19 witness: that log event has been decoded
C19_Witness == input = LogEvent2F4A1234 /\ output.kind = "log"

\* C20: when the panel has sent a waiting command nothing but well formed
\* messages, a read that ends 2 s or more after the command was last
\* written ends with the command written again, also when that read has
\* yielded a message.
C20_RetransmitOnTime ==
    (/\ result.state = "pending"
     /\ rr.overdue
     /\ \A i \in 1..Len(wire) :
            WellFormed(wire[i]) /\ wire[i][2] = HEADER_TYPE_MESSAGE) =>
        /\ rr.exc = "socket.timeout"
        /\ Len(sent) >= 2
        /\ lastsent = sent[1]

\* The whole frame rr.bytes, read in one piece in the state the last pass began in
WholeOutcome ==
    recvresponse_pass(Data(recv(rr.bytes, LENGTH_HEADER)),
                      Data(SubSeq(rr.bytes, LENGTH_HEADER + 1, Len(rr.bytes))),
                      last_sequence, rr.prev, zone)

\* C21: a frame that the socket delivers in pieces (a header read of fewer
\* than 4 bytes, or a remainder read of fewer than msg_length - 4 bytes) is
\* decoded exactly as the same frame delivered whole: the pass ends as the
\* whole frame's pass would, with no fault of its own and nothing truncated
\* accepted.
C21_ExactLengthReads ==
    rr.kind \in {"short_header", "short_rest"} =>
        /\ rr.out = WholeOutcome.out
        /\ rr.val = WholeOutcome.val
        /\ rr.exc = WholeOutcome.exc

\* C22: the sequence byte of the first command written is 0, and the
\* sequence byte of each new command is one more, modulo 256, than the
\* sequence byte of the write before it (the previous command or its last
\* retransmission), whatever was read in between; it always lies in 0..255.
C22_WireSequence ==
    [][ncommands' = ncommands + 1 =>
          /\ lastsent'[4] \in 0..255
          /\ lastsent'[4] = IF ncommands = 0 THEN 0 ELSE (lastsent[4] + 1) % 256]_vars

\* The second command after the counter's first turn, retransmitted once,
\* with a message accepted while it waited
C22_Witness ==
    /\ ncommands = 258
    /\ lastsent[4] = 1
    /\ Len(sent) = 2
    /\ delivered # <<>>

\* The last pass handed a zone event to the decoder
ZoneEventDecoded ==
    /\ rr.kind = "frame"
    /\ rr.bytes[2] = HEADER_TYPE_MESSAGE
    /\ rr.bytes[5] = MSG_ZONEEVENT
    /\ rr.out \in {"continue", "raise"}

\* C23: whenever a zone event for one of the panel's zones is handed to the
\* decoder after SET_EVENT_MESSAGES was acknowledged (a third command has
\* been sent), the zone cache holds an entry for that zone number and the
\* lookup does not fail.
C23_ZoneLookup ==
    (ZoneEventDecoded /\ ncommands >= 3) =>
        /\ rr.bytes[6] \in DOMAIN zone
        /\ rr.exc # "KeyError"

\* C24: every write of a command frame, the first and each retransmission,
\* is followed by a read before the sendcommand call ends: when the call
\* has ended, its last step was not a read that timed out and wrote the
\* frame again.
C24_EveryWriteListenedFor ==
    result.state \in {"returned", "raised"} =>
        ~(rr.out = "raise" /\ rr.exc = "socket.timeout")

\* C25: once recvresponse has seen the disconnect marker and set self.s to
\* None, the program starts no further read or write on self.s; the idle
\* loop does not call recv again (a recv on self.s = None is the
\* AttributeError that ends the program).
C25_NoUseAfterDisconnect ==
    s = "None" => exc # "AttributeError"

\* A step that writes a frame to the socket: a new command or a retransmission
WritesFrame == ncommands' # ncommands \/ Len(sent') > Len(sent)

\* The LOGIN call has ended with the response 01 06
LoginAcknowledged ==
    /\ rr.out = "return"
    /\ rr.val = Str(<<CMD_LOGIN, CMD_RESPONSE_ACK>>)
    /\ result = Returned(Str(<<CMD_RESPONSE_ACK>>))

\* C26: the first command written is LOGIN; until the LOGIN call has ended
\* with the response 01 06 every frame written is that LOGIN frame, and the
\* second command is written only from that end; after any other end of the
\* LOGIN call (01 15, a response that fails validation, no response) nothing
\* more is written.
C26_LoginGates ==
    [][(WritesFrame /\ ncommands <= 1) =>
          \/ /\ ncommands' = 1
             /\ lastsent'[5] = CMD_LOGIN
             /\ result' \in {Pending, Raised("UnboundLocalError")}
          \/ /\ ncommands = 1
             /\ ncommands' = 2
             /\ cmd = CMD_LOGIN
             /\ LoginAcknowledged]_vars

\* C26 witness: LOGIN was acknowledged and SET_EVENT_MESSAGES has been
\* written as the second command
C26_Witness ==
    /\ ncommands = 2
    /\ waiting
    /\ cmd = CMD_SETEVENTMESSAGES
    /\ lastsent[5] = CMD_SETEVENTMESSAGES

====
